---- MODULE Spec2Model ----
(***************************************************************************)
(* Checkout coordination path of the RFID e-commerce prototype:            *)
(*   checkout-service/main.py  load_orders, save_orders, checkout_order,   *)
(*                             send_customer_and_admin_emails, _post_email *)
(* The backing resource ORDERS_FILE is one shared file.  A submission is   *)
(* one run of checkout_order; its file accesses (exists/open/read,         *)
(* makedirs, open "w", write) are separate steps, so that submissions      *)
(* served by several worker processes or pods that share the file          *)
(* interleave at those steps.  A single uvicorn process runs the           *)
(* await-free coroutine checkout_order to completion, which is the serial  *)
(* schedule of SpecSeq.                                                    *)
(***************************************************************************)
EXTENDS Integers, Sequences, FiniteSets, TLC

VARIABLES
  file,         \* content of ORDERS_FILE: [kind, orders]
  admin_email,  \* ADMIN_EMAIL, read from the environment at import
  pc,           \* pc[p]: position of submission p in checkout_order
  body,         \* body[p]: the request body of submission p
  orders,       \* orders[p]: the local `orders` of submission p
  next_id,      \* next_id[p]: the local `next_id` (0 before it is set)
  order,        \* order[p]: the local `order` dict
  response,     \* response[p]: what the client of p received
  wpc,          \* wpc[p]: position of p's background thread _worker
  sent,         \* sent[p]: the requests.post calls of p's _worker, in order
  persisted,    \* history: p's save_orders returned without raising
  pre,          \* history: file as p's load_orders found it
  submitted,    \* history: submissions in order of arrival
  ext,          \* history: number of outside changes to the file
  listed,       \* orders-service: what the last list_orders returned
  cart_items,   \* cart-service: the global cart_items
  item_counter, \* cart-service: the global item_counter
  cart_op       \* history: the last cart request and its answer

vars == <<file, admin_email, pc, body, orders, next_id, order, response,
          wpc, sent, persisted, pre, submitted, ext, listed, cart_items,
          item_counter, cart_op>>

localVars == <<orders, next_id, order, pre>>
storeVars == <<file, localVars, persisted>>
notifyVars == <<wpc, sent>>
cartVars == <<cart_items, item_counter, cart_op>>
\* What no step of checkout_order or _worker touches.
otherVars == <<admin_email, listed, cartVars>>
checkoutVars == <<file, pc, body, orders, next_id, order, response, wpc, sent,
                  persisted, pre, submitted, ext>>

----------------------------------------------------------------------------
\* Bounds of the model.

\* Number of submissions (runs of checkout_order) in one behaviour.
NumReq == 2

\* Number of outside replacements of the file in one behaviour.
MaxExt == 1
MaxAdds == 3

Req == 1..NumReq

----------------------------------------------------------------------------
\* Values.

\* ADMIN_EMAIL's default.
DefaultAdmin == "mangeshg1408@gmail.com"

\* A stored order: order_id, customer (its email stands for the dict),
\* items (its length stands for the list).
MkOrder(id, email, nitems) ==
  [order_id |-> id, customer |-> email, items |-> nitems]

\* Request bodies: a body that fails pydantic validation, or a Customer
\* (Customer.email is any str, the empty string included) and a list of
\* OrderItem (which may be empty).
\* customer_given: the "customer" key holds all six Customer fields
\* ("complete"), lacks one ("partial") or is missing ("absent");
\* items_given: the "items" key holds a list of complete OrderItems
\* ("complete", the empty list included), a list with an item that lacks a
\* field ("partial") or is missing ("absent"); email: customer.email;
\* items: the length of the list.
MkBody(c, i, email, n) ==
  [customer_given |-> c, items_given |-> i, email |-> email, items |-> n]

Bodies ==
  { MkBody("absent", "complete", "", 0),
    MkBody("complete", "complete", "ann@x.edu", 1),
    MkBody("complete", "complete", "ann@x.edu", 0),
    MkBody("complete", "complete", "", 1) }

\* Valid bodies with and without a customer email address.
NotifyBodies ==
  { MkBody("complete", "complete", "ann@x.edu", 1),
    MkBody("complete", "complete", "", 1) }

\* Further bodies that do not fit OrderRequest.
MalformedBodies ==
  { MkBody("absent", "complete", "", 0),
    MkBody("partial", "complete", "", 1),
    MkBody("complete", "absent", "ann@x.edu", 0),
    MkBody("complete", "partial", "ann@x.edu", 1) }

NoBody == MkBody("absent", "absent", "", 0)

ValidatesCustomerOnly(b) == b.customer_given = "complete"

\* OrderRequest: customer: Customer and items: List[OrderItem], every field
\* of both models required, no minimum length of the list.
Validates(b) ==
  /\ b.customer_given = "complete"
  /\ b.items_given = "complete"
NoOrder == MkOrder(0, "", 0)

\* File contents.  kind:
\*   "absent"     the file does not exist
\*   "truncated"  zero bytes (just opened with mode "w")
\*   "partial"    a proper prefix of a JSON document
\*   "garbled"    bytes of two writers mixed
\*   "list"       a JSON array of order objects (orders holds them)
\*   "null"       the JSON value null (falsy, not a list)
\*   "object"     a non-empty JSON object
\*   "badlist"    a non-empty JSON array whose last element is no order
Absent == [kind |-> "absent", orders |-> <<>>]
Truncated == [kind |-> "truncated", orders |-> <<>>]
Partial == [kind |-> "partial", orders |-> <<>>]
Garbled == [kind |-> "garbled", orders |-> <<>>]
JsonList(s) == [kind |-> "list", orders |-> s]
JsonNull == [kind |-> "null", orders |-> <<>>]
JsonObject == [kind |-> "object", orders |-> <<>>]
JsonBadList == [kind |-> "badlist", orders |-> <<>>]

\* Contents json.load rejects.
Unparseable == {"truncated", "partial", "garbled"}

\* The values of the local `orders` before load_orders ran.
NoValue == [kind |-> "unset", orders |-> <<>>]

NoResponse == [status |-> "none", order_id |-> 0]

\* list_orders has not been called yet.
NoListing == [kind |-> "unset", orders |-> <<>>]

\* No cart request has been made yet.
NoCartOp == [op |-> "none", arg |-> 0, status |-> "none"]

----------------------------------------------------------------------------
\* load_orders and the id computation of checkout_order.

\* load_orders(): [] when the file is absent or json.load raises, and
\* otherwise whatever JSON value the file holds.
LoadOrders(f) ==
  IF f.kind = "absent" THEN JsonList(<<>>)
  ELSE IF f.kind \in Unparseable THEN JsonList(<<>>)
  ELSE f

\* Python truthiness of the loaded value (`if orders`).
Truthy(v) ==
  CASE v.kind = "list" -> Len(v.orders) > 0
    [] v.kind = "null" -> FALSE
    [] OTHER -> TRUE

\* orders[-1]["order_id"] raises when the value is truthy and its last
\* element is no order dict (KeyError on a dict, TypeError on a scalar).
NextIdRaises(v) == Truthy(v) /\ v.kind # "list"

NextIdByCount(v) == Len(v.orders) + 1

NextIdNoIncrement(v) ==
  IF Truthy(v) THEN v.orders[Len(v.orders)].order_id ELSE 1

\* next_id = (orders[-1]["order_id"] + 1) if orders else 1
NextId(v) ==
  IF Truthy(v) THEN v.orders[Len(v.orders)].order_id + 1 ELSE 1

\* orders.append(order) raises AttributeError on a value that is no list.
AppendRaises(v) == v.kind \notin {"list", "badlist"}

\* The order dict checkout_order builds from the request.
BuildOrder(id, b) == MkOrder(id, b.email, b.items)

----------------------------------------------------------------------------
\* Responses.

ValidationError == [status |-> "validation_error", order_id |-> 0]
PersistenceError == [status |-> "persistence_error", order_id |-> 0]
InternalError == [status |-> "internal_error", order_id |-> 0]

\* Outcomes of one requests.post(...) + raise_for_status(): a 2xx answer,
\* an error status (raise_for_status raises), an exception of requests.post
\* itself (the 8 s timeout, or a connection error, which the code treats
\* alike).
Outcomes == {"ok", "http_error", "timeout"}

NotifyFailed(p) ==
  \E i \in 1..Len(sent[p]) : sent[p][i].outcome \in Outcomes \ {"ok"}

CheckoutResultSurfacingEmail(p) ==
  IF NotifyFailed(p) THEN InternalError
  ELSE [status |-> "success", order_id |-> next_id[p]]

\* return {"status": "success", "order_id": next_id}
CheckoutResult(p) == [status |-> "success", order_id |-> next_id[p]]

----------------------------------------------------------------------------
\* Initial states.

\* Orders already in the store when the service starts.
SeedOrder(id) == MkOrder(id, "old@x.edu", 1)

SeedStores ==
  { <<>>, <<SeedOrder(5)>>, <<SeedOrder(1), SeedOrder(2)>> }

InitLocals ==
  /\ pc = [p \in Req |-> "idle"]
  /\ body = [p \in Req |-> NoBody]
  /\ orders = [p \in Req |-> NoValue]
  /\ next_id = [p \in Req |-> 0]
  /\ order = [p \in Req |-> NoOrder]
  /\ response = [p \in Req |-> NoResponse]
  /\ wpc = [p \in Req |-> "none"]
  /\ sent = [p \in Req |-> <<>>]
  /\ persisted = [p \in Req |-> FALSE]
  /\ pre = [p \in Req |-> Absent]
  /\ submitted = <<>>
  /\ ext = 0
  /\ listed = NoListing
  /\ cart_items = <<>>
  /\ item_counter = 0
  /\ cart_op = NoCartOp

\* An empty store: no file yet, or a file holding [].
InitEmpty ==
  /\ file \in {Absent, JsonList(<<>>)}
  /\ admin_email = DefaultAdmin
  /\ InitLocals

\* First start: no file yet.
InitFresh ==
  /\ file = Absent
  /\ admin_email = DefaultAdmin
  /\ InitLocals

\* Contents an outside party may leave in place of the file.
Replacements == {Absent, Garbled, JsonNull, JsonObject, JsonBadList}

\* Any content of the file: none, a saved list, or what a replacement from
\* outside left.
InitAnyFile ==
  /\ file \in Replacements \cup {JsonList(s) : s \in SeedStores}
  /\ admin_email = DefaultAdmin
  /\ InitLocals

\* First start, with ADMIN_EMAIL as the environment sets it.
InitNotify ==
  /\ file = Absent
  /\ admin_email \in {DefaultAdmin, ""}
  /\ InitLocals

\* A store the service left behind: no file, or a saved list.
InitSeeded ==
  /\ file \in {Absent} \cup {JsonList(s) : s \in SeedStores}
  /\ admin_email = DefaultAdmin
  /\ InitLocals

\* No file or a saved list, with ADMIN_EMAIL as the environment sets it.
Init ==
  /\ file \in {Absent, JsonList(<<SeedOrder(5)>>)}
  /\ admin_email \in {DefaultAdmin, ""}
  /\ InitLocals

----------------------------------------------------------------------------
\* checkout_order, step by step.

Idle(q) == pc[q] \in {"idle", "done"}

\* A request arrives; FastAPI validates the body against OrderRequest
\* before the handler runs and answers 422 when it does not fit.
\* (Submissions arrive in index order: their names are interchangeable.)
Submit(p, b) ==
  /\ pc[p] = "idle"
  /\ \A q \in Req : q < p => pc[q] # "idle"
  /\ body' = [body EXCEPT ![p] = b]
  /\ submitted' = Append(submitted, p)
  /\ IF Validates(b)
       THEN /\ pc' = [pc EXCEPT ![p] = "load"]
            /\ UNCHANGED response
       ELSE /\ pc' = [pc EXCEPT ![p] = "done"]
            /\ response' = [response EXCEPT ![p] = ValidationError]
  /\ UNCHANGED <<storeVars, notifyVars, otherVars, ext>>

\* The same, in a process that runs one handler at a time.
SubmitSerial(p, b) ==
  /\ \A q \in Req : Idle(q)
  /\ Submit(p, b)

\* orders = load_orders(); next_id = ...; order = {...}; orders.append(order)
Load(p) ==
  /\ pc[p] = "load"
  /\ pre' = [pre EXCEPT ![p] = file]
  /\ LET v == LoadOrders(file) IN
       IF NextIdRaises(v)
         THEN /\ orders' = [orders EXCEPT ![p] = v]
              /\ response' = [response EXCEPT ![p] = InternalError]
              /\ pc' = [pc EXCEPT ![p] = "done"]
              /\ UNCHANGED <<next_id, order>>
         ELSE LET id == NextId(v)
                  o == BuildOrder(id, body[p])
              IN /\ next_id' = [next_id EXCEPT ![p] = id]
                 /\ order' = [order EXCEPT ![p] = o]
                 /\ IF AppendRaises(v)
                      THEN /\ orders' = [orders EXCEPT ![p] = v]
                           /\ response' =
                                [response EXCEPT ![p] = InternalError]
                           /\ pc' = [pc EXCEPT ![p] = "done"]
                      ELSE /\ orders' = [orders EXCEPT ![p] =
                                           JsonList(Append(v.orders, o))]
                           /\ pc' = [pc EXCEPT ![p] = "mkdir"]
                           /\ UNCHANGED response
  /\ UNCHANGED <<file, persisted, notifyVars, otherVars, body, submitted,
                 ext>>

SaveFailsIgnored(p) ==
  /\ pc' = [pc EXCEPT ![p] = "dispatch"]
  /\ UNCHANGED response

\* except Exception as exc: raise HTTPException(500, "Failed to persist")
SaveFails(p) ==
  /\ response' = [response EXCEPT ![p] = PersistenceError]
  /\ pc' = [pc EXCEPT ![p] = "done"]

\* save_orders: os.makedirs(dirname, exist_ok=True).  It can fail only when
\* the directory is missing, and then the file is missing too.
SaveMkdir(p) ==
  /\ pc[p] = "mkdir"
  /\ \/ /\ pc' = [pc EXCEPT ![p] = "open"]
        /\ UNCHANGED response
     \/ /\ file.kind = "absent"
        /\ SaveFails(p)
  /\ UNCHANGED <<storeVars, notifyVars, otherVars, body, submitted, ext>>

\* save_orders: open(ORDERS_FILE, "w") truncates the file to zero bytes, or
\* raises and leaves it alone.
SaveOpen(p) ==
  /\ pc[p] = "open"
  /\ \/ /\ file' = Truncated
        /\ pc' = [pc EXCEPT ![p] = "write"]
        /\ UNCHANGED response
     \/ /\ SaveFails(p)
        /\ UNCHANGED file
  /\ UNCHANGED <<localVars, persisted, notifyVars, otherVars, body,
                 submitted, ext>>

WrittenNewOrderOnly(f, v) == {JsonList(<<v.orders[Len(v.orders)]>>)}

\* What the file holds once this writer's bytes are flushed.  The writer
\* writes from offset 0 of the file it truncated; when another writer has
\* written since, the result is this writer's document or a mix of the two.
Written(f, v) ==
  IF f.kind = "truncated" THEN {JsonList(v.orders)}
  ELSE {JsonList(v.orders), Garbled}

\* What the file holds when the write raises (disk full, I/O error).
HalfWritten(f) ==
  IF f.kind = "truncated" THEN {Truncated, Partial} ELSE {f, Garbled}

\* save_orders: json.dump(orders, f) and the close of the with block.
SaveWrite(p) ==
  /\ pc[p] = "write"
  /\ \/ /\ file' \in Written(file, orders[p])
        /\ persisted' = [persisted EXCEPT ![p] = TRUE]
        /\ pc' = [pc EXCEPT ![p] = "dispatch"]
        /\ UNCHANGED response
     \/ /\ file' \in HalfWritten(file)
        /\ SaveFails(p)
        /\ UNCHANGED persisted
  /\ UNCHANGED <<localVars, notifyVars, otherVars, body, submitted, ext>>

\* send_customer_and_admin_emails(order): threading.Thread(_worker).start()
Dispatch(p) ==
  /\ pc[p] = "dispatch"
  /\ wpc' = [wpc EXCEPT ![p] = "cust"]
  /\ pc' = [pc EXCEPT ![p] = "return"]
  /\ UNCHANGED <<storeVars, sent, response, otherVars, body, submitted,
                 ext>>

ReturnAfterJoin(p) ==
  /\ pc[p] = "return"
  /\ wpc[p] \in {"done", "dead"}
  /\ response' = [response EXCEPT ![p] = CheckoutResult(p)]
  /\ pc' = [pc EXCEPT ![p] = "done"]
  /\ UNCHANGED <<storeVars, notifyVars, otherVars, body, submitted, ext>>

\* return {"status": "success", "order_id": next_id}: the thread was started,
\* never joined.
Return(p) ==
  /\ pc[p] = "return"
  /\ response' = [response EXCEPT ![p] = CheckoutResult(p)]
  /\ pc' = [pc EXCEPT ![p] = "done"]
  /\ UNCHANGED <<storeVars, notifyVars, otherVars, body, submitted, ext>>

----------------------------------------------------------------------------
\* The background thread _worker and _post_email.

\* One requests.post call of p's worker.
Post(p, kind, to) ==
  [kind |-> kind, to |-> to, order_id |-> order[p].order_id,
   outcome |-> "inflight"]

PostEmailPropagates(outcome) == outcome # "ok"

\* _post_email catches every Exception and logs it: nothing propagates.
PostEmailRaises(outcome) == FALSE

AfterPostRetrying(w, o) ==
  IF o # "ok" THEN (IF w = "cust_post" THEN "cust" ELSE "admin")
  ELSE IF w = "cust_post" THEN "admin" ELSE "done"

\* Where _worker goes on when the call made at w ended with o: to the next
\* statement, once; a raise out of _post_email would end the thread.
AfterPost(w, o) ==
  IF PostEmailRaises(o) THEN "dead"
  ELSE IF w = "cust_post" THEN "admin" ELSE "done"

\* if cust_email: _post_email(cust_email, ...)   -- the call is made
WorkerCustomer(p) ==
  /\ wpc[p] = "cust"
  /\ IF order[p].customer # ""
       THEN /\ sent' = [sent EXCEPT ![p] =
                          Append(@, Post(p, "customer", order[p].customer))]
            /\ wpc' = [wpc EXCEPT ![p] = "cust_post"]
       ELSE /\ wpc' = [wpc EXCEPT ![p] = "admin"]
            /\ UNCHANGED sent
  /\ UNCHANGED <<storeVars, pc, body, response, otherVars, submitted, ext>>

\* if ADMIN_EMAIL: _post_email(ADMIN_EMAIL, ...)   -- the call is made
WorkerAdmin(p) ==
  /\ wpc[p] = "admin"
  /\ IF admin_email # ""
       THEN /\ sent' = [sent EXCEPT ![p] =
                          Append(@, Post(p, "admin", admin_email))]
            /\ wpc' = [wpc EXCEPT ![p] = "admin_post"]
       ELSE /\ wpc' = [wpc EXCEPT ![p] = "done"]
            /\ UNCHANGED sent
  /\ UNCHANGED <<storeVars, pc, body, response, otherVars, submitted, ext>>

PostReturnsRollingBack(p) ==
  /\ wpc[p] \in {"cust_post", "admin_post"}
  /\ \E o \in Outcomes :
       /\ sent' = [sent EXCEPT ![p][Len(sent[p])].outcome = o]
       /\ wpc' = [wpc EXCEPT ![p] = AfterPost(wpc[p], o)]
       /\ file' = IF o = "ok" THEN file ELSE pre[p]
  /\ UNCHANGED <<localVars, persisted, pc, body, response, otherVars,
                 submitted, ext>>

\* The call in flight ends, one way or another, and _post_email returns;
\* an exception leaving _post_email would end the thread.
PostReturns(p) ==
  /\ wpc[p] \in {"cust_post", "admin_post"}
  /\ \E o \in Outcomes :
       /\ sent' = [sent EXCEPT ![p][Len(sent[p])].outcome = o]
       /\ wpc' = [wpc EXCEPT ![p] = AfterPost(wpc[p], o)]
  /\ UNCHANGED <<storeVars, pc, body, response, otherVars, submitted, ext>>

----------------------------------------------------------------------------
\* The environment.

\* The file is deleted or replaced from outside, between submissions.
ExternalReplace ==
  /\ ext < MaxExt
  /\ \A q \in Req : Idle(q)
  /\ file' \in Replacements
  /\ ext' = ext + 1
  /\ UNCHANGED <<localVars, persisted, notifyVars, pc, body, response,
                 otherVars, submitted>>

----------------------------------------------------------------------------
\* The orders service: GET /api/orders.

ListOrdersUnguarded(f) ==
  IF f.kind = "absent" THEN JsonList(<<>>)
  ELSE IF f.kind \in Unparseable THEN [kind |-> "error", orders |-> <<>>]
  ELSE f

\* The value under "orders" in the response: [] when the file does not
\* exist or json.load raises, and otherwise the JSON value the file holds.
ListOrdersResult(f) ==
  IF f.kind = "absent" THEN JsonList(<<>>)
  ELSE IF f.kind \in Unparseable THEN JsonList(<<>>)
  ELSE f

\* list_orders(): runs in its own service, at any moment of a checkout.
ListOrders ==
  /\ listed' = ListOrdersResult(file)
  /\ UNCHANGED <<checkoutVars, admin_email, cartVars>>

----------------------------------------------------------------------------
\* The cart service: POST /api/cart and DELETE /api/cart/{item_id}.  Both
\* handlers run without awaiting, one at a time.

\* The part of the payload that tells two items apart.
Templates == {"classic", "modern"}

\* CartItem(item_id=item_counter, **item.dict())
CartItem(id, t) == [item_id |-> id, template_id |-> t]

AddCartItemByLength(t) ==
  /\ item_counter < MaxAdds
  /\ item_counter' = Len(cart_items) + 1
  /\ cart_items' = Append(cart_items, CartItem(item_counter', t))
  /\ cart_op' = [op |-> "add", arg |-> item_counter', status |-> "added"]
  /\ UNCHANGED <<checkoutVars, admin_email, listed>>

\* add_cart_item(item)
AddCartItem(t) ==
  /\ item_counter < MaxAdds
  /\ item_counter' = item_counter + 1
  /\ cart_items' = Append(cart_items, CartItem(item_counter', t))
  /\ cart_op' = [op |-> "add", arg |-> item_counter', status |-> "added"]
  /\ UNCHANGED <<checkoutVars, admin_email, listed>>

RemainingByPosition(items, item_id) ==
  [k \in 1..(IF item_id \in 1..Len(items) THEN Len(items) - 1
             ELSE Len(items)) |->
     IF item_id \in 1..Len(items) /\ k >= item_id
       THEN items[k + 1] ELSE items[k]]

\* remaining = [i for i in cart_items if i.item_id != item_id]
Remaining(items, item_id) ==
  LET Other(i) == i.item_id # item_id
  IN  SelectSeq(items, Other)

\* remove_cart_item(item_id): 404 when nothing was filtered out.
RemoveCartItem(item_id) ==
  LET remaining == Remaining(cart_items, item_id)
  IN  /\ IF Len(remaining) = Len(cart_items)
            THEN /\ cart_op' = [op |-> "remove", arg |-> item_id,
                                status |-> "not_found"]
                 /\ UNCHANGED cart_items
            ELSE /\ cart_items' = remaining
                 /\ cart_op' = [op |-> "remove", arg |-> item_id,
                                status |-> "deleted"]
      /\ UNCHANGED <<item_counter, checkoutVars, admin_email, listed>>

----------------------------------------------------------------------------
\* Specifications.

Handler(p) ==
  \/ Load(p)
  \/ SaveMkdir(p)
  \/ SaveOpen(p)
  \/ SaveWrite(p)
  \/ Dispatch(p)
  \/ Return(p)

Worker(p) ==
  \/ WorkerCustomer(p)
  \/ WorkerAdmin(p)
  \/ PostReturns(p)

\* One process, one handler at a time, store only.
NextSeq ==
  \E p \in Req :
    \/ \E b \in Bodies : SubmitSerial(p, b)
    \/ Handler(p)

\* Several processes sharing the file, store only.
NextConc ==
  \E p \in Req :
    \/ \E b \in Bodies : Submit(p, b)
    \/ Handler(p)

\* One handler at a time, with the file replaced from outside.
NextExt ==
  \/ \E p \in Req :
       \/ \E b \in Bodies : SubmitSerial(p, b)
       \/ Handler(p)
  \/ ExternalReplace

\* One process: the event loop runs one handler at a time (checkout_order
\* never awaits), and the background threads run alongside the handlers and
\* each other.
Next ==
  \E p \in Req :
    \/ \E b \in Bodies : SubmitSerial(p, b)
    \/ Handler(p)
    \/ Worker(p)

\* As Next, with the requests that differ in what _worker looks at: the
\* customer's email address, given or "".
NextNotify ==
  \E p \in Req :
    \/ \E b \in NotifyBodies : SubmitSerial(p, b)
    \/ Handler(p)
    \/ Worker(p)

\* As Next, with every kind of malformed request body.
NextIngress ==
  \E p \in Req :
    \/ \E b \in Bodies \cup MalformedBodies : SubmitSerial(p, b)
    \/ Handler(p)
    \/ Worker(p)

\* One checkout process and the orders service reading the same file.
NextList ==
  \/ \E p \in Req :
       \/ \E b \in Bodies : SubmitSerial(p, b)
       \/ Handler(p)
  \/ ListOrders

\* The cart service on its own; any integer may be asked to be removed.
NextCart ==
  \/ \E t \in Templates : AddCartItem(t)
  \/ \E item_id \in 0..(MaxAdds + 1) : RemoveCartItem(item_id)

SpecSeq == InitEmpty /\ [][NextSeq]_vars
SpecCart == InitFresh /\ [][NextCart]_vars
SpecList == InitAnyFile /\ [][NextList]_vars
SpecIngress == Init /\ [][NextIngress]_vars
SpecSeqSeeded == InitSeeded /\ [][NextSeq]_vars
SpecConc == InitSeeded /\ [][NextConc]_vars
SpecExt == InitSeeded /\ [][NextExt]_vars
Spec == Init /\ [][Next]_vars

\* The handler coroutine runs on once started; nothing is assumed of the
\* daemon threads or of the email service answering.
SpecFair ==
  /\ InitFresh
  /\ [][NextNotify]_vars
  /\ \A p \in Req : WF_vars(Handler(p))

\* The background threads keep running and every requests.post returns (it
\* has a timeout); nothing is assumed of the handlers.
SpecNotify ==
  /\ InitNotify
  /\ [][NextNotify]_vars
  /\ \A p \in Req : WF_vars(Worker(p))

----------------------------------------------------------------------------
\* Vocabulary of the properties.

Responded(p) == response[p].status # "none"
Succeeded(p) == response[p].status = "success"
Loaded(p) == orders[p].kind # "unset"
Quiescent == \A q \in Req : Idle(q)
LastSubmitted(p) == Len(submitted) > 0 /\ submitted[Len(submitted)] = p

Ids(s) == {s[i].order_id : i \in 1..Len(s)}
MaxOf(S) == CHOOSE m \in S : \A n \in S : n <= m
StrictlyIncreasing(s) ==
  \A i \in 1..(Len(s) - 1) : s[i].order_id < s[i + 1].order_id
Holds(f, o) == f.kind = "list" /\ \E i \in 1..Len(f.orders) : f.orders[i] = o

CustomerPosts(p) == {i \in 1..Len(sent[p]) : sent[p][i].kind = "customer"}
AdminPosts(p) == {i \in 1..Len(sent[p]) : sent[p][i].kind = "admin"}
WorkerFinished(p) == wpc[p] \in {"done", "dead"}

----------------------------------------------------------------------------
\* C1: from an empty store, after N successful submissions run one after
\* another the store holds exactly N orders, the k-th being the order of the
\* k-th submission with order_id k, and the k-th submission was answered
\* order_id k.
C1_SequentialIds ==
  (Quiescent /\ \A k \in 1..Len(submitted) : Succeeded(submitted[k]))
    => /\ Len(submitted) > 0 =>
            /\ file.kind = "list"
            /\ Len(file.orders) = Len(submitted)
       /\ \A k \in 1..Len(submitted) :
            /\ response[submitted[k]].order_id = k
            /\ file.orders[k].order_id = k
            /\ file.orders[k] = BuildOrder(k, body[submitted[k]])

C1_Witness ==
  /\ Quiescent
  /\ Len(submitted) = NumReq
  /\ \A p \in Req : Succeeded(p)
  /\ Len(file.orders) = NumReq
  /\ file.orders[NumReq].order_id = NumReq

----------------------------------------------------------------------------
\* C2: no two successful submissions are assigned the same order
\* identifier, also when their load_orders and save_orders steps interleave.
C2_UniqueIds ==
  \A p, q \in Req :
    (p # q /\ Succeeded(p) /\ Succeeded(q))
      => response[p].order_id # response[q].order_id

----------------------------------------------------------------------------
\* C3: an order a submission has saved stays in the store: whenever the file
\* holds a complete list of orders, every order whose save_orders returned
\* is one of them, unchanged.
C3_SavedOrdersStay ==
  \A p \in Req : (persisted[p] /\ file.kind = "list") => Holds(file, order[p])

----------------------------------------------------------------------------
\* C4: a submission whose save_orders fails, at whichever step, is answered
\* with a persistence failure and leaves the stored orders as it found them
\* (stated of the latest submission of a serial run, after which nothing
\* else wrote, and of the orders load_orders reads from the file).
C4_FailedSaveLeavesFile ==
  \A p \in Req :
    (LastSubmitted(p) /\ response[p] = PersistenceError)
      => LoadOrders(file) = LoadOrders(pre[p])

----------------------------------------------------------------------------
\* C5: every call to the Notifier for an order comes after save_orders
\* returned for that order, and a submission answered with a persistence
\* failure makes no call and starts no background thread.
C5_NotifyOnlyAfterSave ==
  \A p \in Req :
    /\ (wpc[p] # "none" \/ sent[p] # <<>>) => persisted[p]
    /\ \A i \in 1..Len(sent[p]) : sent[p][i].order_id = order[p].order_id
    /\ response[p] = PersistenceError => (sent[p] = <<>> /\ wpc[p] = "none")

C5_Witness ==
  \E p, q \in Req :
    /\ persisted[p] /\ Len(sent[p]) = 2
    /\ response[q] = PersistenceError /\ sent[q] = <<>>

----------------------------------------------------------------------------
----------------------------------------------------------------------------
\* The answer the file content found, the request and the fate of
\* save_orders call for; the Notifier has no part in it.
AnswerDue(f, b, saved) ==
  IF ~Validates(b) THEN ValidationError
  ELSE IF ~saved THEN PersistenceError
  ELSE IF LoadOrders(f).orders = <<>>
         THEN [status |-> "success", order_id |-> 1]
         ELSE [status |-> "success",
               order_id |-> MaxOf(Ids(LoadOrders(f).orders)) + 1]

\* C7: the answer to a submission does not depend on the Notifier: it is
\* the one the file content it found, its request and the fate of its
\* save_orders determine, whatever its Notifier calls did (so two runs that
\* differ only in the Notifier are answered alike), and a submission with a
\* failed Notifier call is answered success, never a failure.
C7_ResponseIgnoresNotifier ==
  \A p \in Req :
    /\ Responded(p) => response[p] = AnswerDue(pre[p], body[p], persisted[p])
    /\ (Responded(p) /\ NotifyFailed(p)) => Succeeded(p)

C7_Witness ==
  \E p, q \in Req :
    /\ Succeeded(p) /\ Succeeded(q)
    /\ body[p] = body[q]
    /\ Len(sent[p]) = 2 /\ Len(sent[q]) = 2
    /\ \A i \in 1..2 : sent[p][i].outcome = "ok"
    /\ sent[q][1].outcome = "timeout" /\ sent[q][2].outcome = "http_error"

----------------------------------------------------------------------------
----------------------------------------------------------------------------
\* C9: whenever the file holds a list of orders, their identifiers are
\* strictly increasing along it, under any interleaving of the load and
\* save steps of the submissions; so are those of every list a submission
\* is about to save.
C9_StrictlyIncreasing ==
  /\ file.kind = "list" => StrictlyIncreasing(file.orders)
  /\ \A p \in Req : Loaded(p) => StrictlyIncreasing(orders[p].orders)

C9_Witness ==
  \E p, q \in Req :
    /\ p # q
    /\ persisted[p] /\ persisted[q]
    /\ pre[p] = pre[q]
    /\ file.kind = "list" /\ Len(file.orders) = 3

----------------------------------------------------------------------------
\* C10: a submission that finds the file absent or holding anything but a
\* list of orders, and whose save does not fail, is answered success with
\* order_id 1 and leaves a store that holds its order alone.
C10_InvalidContentStartsAfresh ==
  \A p \in Req :
    ( /\ Loaded(p) /\ pc[p] = "done"
      /\ pre[p].kind # "list"
      /\ response[p] # PersistenceError )
      => /\ response[p] = [status |-> "success", order_id |-> 1]
         /\ LastSubmitted(p) => file = JsonList(<<order[p]>>)

----------------------------------------------------------------------------
\* C11: delivery is at most once per recipient and checkout: a checkout's
\* background thread never makes a second call to the Notifier for the
\* customer nor for the administrator, also after a call that failed or
\* timed out (no retry).
C11_AtMostOncePerRecipient ==
  \A p \in Req :
    /\ Len(sent[p]) <= 2
    /\ \A i, j \in 1..Len(sent[p]) :
         sent[p][i].kind = sent[p][j].kind => i = j

C11_Witness ==
  \E p \in Req :
    /\ WorkerFinished(p)
    /\ Len(sent[p]) = 2
    /\ \A i \in 1..2 : sent[p][i].outcome = "timeout"

----------------------------------------------------------------------------
\* C12: a request body that lacks the customer, a required customer or item
\* field, or the items list is answered with a validation error before the
\* store is touched: the file is not read, not written and keeps its
\* content, and no notification thread is started; a body with an empty
\* items list is not rejected.
C12_Malformed(b) ==
  \/ b.customer_given \in {"absent", "partial"}
  \/ b.items_given \in {"absent", "partial"}

C12_Rejected(p) ==
  /\ response[p] = ValidationError
  /\ pc[p] = "done"
  /\ ~Loaded(p) /\ next_id[p] = 0 /\ order[p] = NoOrder
  /\ ~persisted[p]
  /\ wpc[p] = "none" /\ sent[p] = <<>>

C12_AtArrival ==
  \A p \in Req :
    (pc[p] = "idle" /\ pc'[p] # "idle")
      => IF C12_Malformed(body'[p])
           THEN file' = file /\ response'[p] = ValidationError
           ELSE pc'[p] = "load" /\ response'[p] = NoResponse

C12_MalformedRejectedEarly ==
  /\ [](\A p \in Req :
          pc[p] # "idle" =>
            IF C12_Malformed(body[p])
              THEN C12_Rejected(p)
              ELSE response[p] # ValidationError)
  /\ [][C12_AtArrival]_vars

C12_Witness ==
  \E p, q \in Req :
    /\ body[p].items_given = "absent" /\ C12_Rejected(p)
    /\ body[q].items_given = "complete" /\ body[q].items = 0
    /\ Succeeded(q)

----------------------------------------------------------------------------
\* C13: the notifier never holds up the client: once a submission's save
\* has succeeded its response is eventually returned, even when the
\* notification calls never complete.
C13_ResponseDespiteNotifier ==
  \A p \in Req : persisted[p] ~> Responded(p)

C13_Witness ==
  \E p \in Req :
    /\ persisted[p] /\ Succeeded(p)
    /\ wpc[p] = "cust_post"
    /\ sent[p][Len(sent[p])].outcome = "inflight"

----------------------------------------------------------------------------
\* C14: the rewrite of the file is atomic: a listing made while a
\* submission's save_orders is in progress shows either the complete
\* sequence that submission loaded or that sequence with the new order
\* appended, never an empty or partial one.
C14_Saving(p) == pc[p] \in {"mkdir", "open", "write"}

C14_AtomicRewrite ==
  [][\A p \in Req :
       (C14_Saving(p) /\ listed' # listed)
         => listed' \in {LoadOrders(pre[p]), JsonList(orders[p].orders)}]_vars

\* C15: a listing is read-only and tolerant: it leaves the file and the
\* checkout service's state as they are, it returns an empty list when the
\* file is absent or cannot be parsed, and otherwise the stored content in
\* full.
C15_ListingReadOnlyTolerant ==
  [][listed' # listed =>
       /\ file' = file
       /\ UNCHANGED checkoutVars
       /\ IF file.kind = "absent" \/ file.kind \in Unparseable
            THEN listed' = JsonList(<<>>)
            ELSE listed' = file]_vars

C15_Witness ==
  /\ file.kind \in Unparseable
  /\ listed = JsonList(<<>>)
  /\ \E p \in Req : pre[p].kind = "list" /\ Len(pre[p].orders) > 0

----------------------------------------------------------------------------
\* C16: a notification that fails or times out changes nothing but the
\* worker's own progress: the file and every handler's state stay as they
\* are, and the submission that comes next loads exactly what its
\* predecessor saved, takes the next order_id and is answered with it (or
\* with an error of its own save), whatever became of the predecessor's
\* notifications.
C16_DeliveryFails ==
  \E p \in Req :
    /\ wpc[p] \in {"cust_post", "admin_post"}
    /\ Len(sent'[p]) = Len(sent[p])
    /\ sent'[p][Len(sent[p])].outcome \in {"http_error", "timeout"}

C16_NextUnaffected ==
  \A k \in 1..(Len(submitted) - 1) :
    LET p == submitted[k]
        q == submitted[k + 1]
    IN  (persisted[p] /\ Loaded(q)) =>
          /\ pre[q] = JsonList(orders[p].orders)
          /\ next_id[q] = next_id[p] + 1
          /\ Responded(q) =>
               response[q] \in {[status |-> "success",
                                 order_id |-> next_id[p] + 1],
                                PersistenceError}

C16_FailureHasNoEffect ==
  /\ []C16_NextUnaffected
  /\ [][C16_DeliveryFails =>
          UNCHANGED <<file, localVars, persisted, pc, body, response,
                      submitted>>]_vars

C16_Witness ==
  \E p, q \in Req :
    /\ Len(submitted) = 2 /\ submitted[1] = p /\ submitted[2] = q
    /\ WorkerFinished(p) /\ Len(sent[p]) = 2
    /\ \A i \in 1..2 : sent[p][i].outcome \in {"http_error", "timeout"}
    /\ Succeeded(q) /\ response[q].order_id = next_id[p] + 1
    /\ wpc[q] = "cust"

----------------------------------------------------------------------------
\* C17: the two notifications of a checkout do not depend on each other's
\* outcome: when the customer delivery fails or times out, the
\* administrator notification of the same order is still attempted.
C17_CustomerFailed(p) ==
  \E i \in CustomerPosts(p) : sent[p][i].outcome \in {"http_error", "timeout"}

----------------------------------------------------------------------------
\* C18: cart item ids are never reused: the item_ids in the cart are
\* strictly increasing in list order (hence pairwise distinct) and at most
\* item_counter; item_counter never decreases, and an item that is added
\* gets an item_id above item_counter as it was, so above every item_id
\* given out before, removed or not.
C18_IdsInOrder ==
  /\ \A i, j \in 1..Len(cart_items) :
       i < j => cart_items[i].item_id < cart_items[j].item_id
  /\ \A i \in 1..Len(cart_items) :
       cart_items[i].item_id >= 1 /\ cart_items[i].item_id <= item_counter

C18_AddTakesFreshId ==
  /\ item_counter' >= item_counter
  /\ Len(cart_items') > Len(cart_items) =>
       /\ cart_items'[Len(cart_items')].item_id = item_counter'
       /\ item_counter' > item_counter

C18_IdsNeverReused ==
  /\ []C18_IdsInOrder
  /\ [][C18_AddTakesFreshId]_vars

C18_Witness ==
  /\ Len(cart_items) = 2
  /\ cart_items[1].item_id = 1 /\ cart_items[2].item_id = 3
  /\ cart_op = [op |-> "add", arg |-> 3, status |-> "added"]

\* C19: removing by item_id: when no item of the cart has that id, the
\* request fails with not found and the cart and item_counter stay as they
\* are; otherwise exactly the item with that id is removed, the others keep
\* their order, and item_counter stays as it is.
C19_Positions(item_id) ==
  {k \in 1..Len(cart_items) : cart_items[k].item_id = item_id}

C19_Without(k) ==
  SubSeq(cart_items, 1, k - 1) \o SubSeq(cart_items, k + 1, Len(cart_items))

C19_RemoveStep ==
  (cart_op'.op = "remove" /\ <<cart_op, cart_items>>' # <<cart_op, cart_items>>)
    => /\ item_counter' = item_counter
       /\ IF C19_Positions(cart_op'.arg) = {}
            THEN cart_op'.status = "not_found" /\ cart_items' = cart_items
            ELSE /\ cart_op'.status = "deleted"
                 /\ \E k \in C19_Positions(cart_op'.arg) :
                      cart_items' = C19_Without(k)

C19_RemoveByItemId == [][C19_RemoveStep]_vars

C19_Witness ==
  /\ item_counter = 3
  /\ Len(cart_items) = 2
  /\ cart_items[1].item_id = 1 /\ cart_items[2].item_id = 3
  /\ cart_op = [op |-> "remove", arg |-> 2, status |-> "deleted"]

====
